---- MODULE Spec2Model ----
(***************************************************************************)
(* Model of tools/flow-analyzer/analyzer.py: the flow graph drawn by       *)
(* generate_mermaid and the checkbox filter (updateFilter) of the page     *)
(* written by generate_html.                                               *)
(*                                                                         *)
(* The page is a single-threaded event loop.  Its events are: the diagram  *)
(* renderer finishing (Render), the 500 ms start-up timer (InitialTimer)   *)
(* and a checkbox change (Toggle); the last two run updateFilter to        *)
(* completion.                                                             *)
(***************************************************************************)
EXTENDS Integers, Sequences, FiniteSets, TLC

VARIABLES checked, rendered, timerFired, nodeEls, edgeEls, edgeLabels,
          lastLog, threw, applied

vars == <<checked, rendered, timerFired, nodeEls, edgeEls, edgeLabels,
          lastLog, threw, applied>>

(***************************************************************************)
(* Bounds of the model: how many connector elements the renderer may       *)
(* expose fewer, or more, than edgeConnections declares.                   *)
(***************************************************************************)
MaxMissing == 2

MaxExtra == 2

Range(s) == {s[i] : i \in 1..Len(s)}

Min(a, b) == IF a <= b THEN a ELSE b

(***************************************************************************)
(* The graph drawn by generate_mermaid.                                    *)
(***************************************************************************)
\* node ids in declaration order; X1 is declared inline by the edge C2 --> X1
mermaidNodes ==
    << "I1", "I2", "I3", "I4",
       "C1", "C2", "C3", "C4", "C5", "C6", "C7", "C8", "C9",
       "E1", "E2", "E3", "E4", "E5", "E6",
       "P1", "P2", "P3", "P4", "P5",
       "O1", "O2", "O3", "O4", "O5",
       "X1" >>

\* the edge lines of the diagram, in drawing order
mermaidEdges ==
    << <<"I1", "C1">>, <<"I2", "C1">>, <<"I3", "C7">>, <<"I4", "C8">>,
       <<"C1", "C2">>, <<"C2", "C3">>, <<"C2", "X1">>, <<"C3", "C4">>,
       <<"C4", "C5">>, <<"C4", "C6">>, <<"C6", "C5">>, <<"C5", "C9">>,
       <<"C9", "E1">>, <<"E1", "O1">>,
       <<"C7", "E2">>, <<"E2", "O2">>, <<"C7", "E3">>, <<"E3", "O2">>,
       <<"C8", "P3">>, <<"C8", "P4">>, <<"C8", "P5">>,
       <<"P3", "E5">>, <<"P4", "E6">>, <<"P5", "E4">>,
       <<"E4", "O3">>, <<"E5", "O4">>, <<"E6", "O5">>,
       <<"C5", "P1">>, <<"P2", "C5">> >>

NodeIds == Range(mermaidNodes)

(***************************************************************************)
(* The tables of the page script.                                          *)
(***************************************************************************)
\* the four checkboxes filter-y, filter-yy, filter-e, filter-d, in the order
\* updateFilter reads and processes them
CategoryOrder == << "y", "yy", "e", "d" >>

Categories == Range(CategoryOrder)

flowNodes ==
    [c \in Categories |->
        CASE c = "y"  -> << "I1", "X1" >>
          [] c = "yy" -> << "I2", "C6" >>
          [] c = "e"  -> << "I3", "C7", "E2", "E3", "O2" >>
          [] c = "d"  -> << "I4", "C8", "P3", "P4", "P5", "E4", "E5", "E6",
                            "O3", "O4", "O5" >>]

sharedNodes ==
    [g \in {"y_yy"} |->
        << "C1", "C2", "C3", "C4", "C5", "C9", "E1", "O1", "P1", "P2" >>]

\* the declared list without the pair of the edge line that declares X1 inline
edgeConnectionsWithoutInline ==
    SubSeq(mermaidEdges, 1, 6) \o SubSeq(mermaidEdges, 8, Len(mermaidEdges))

edgeConnections ==
    << <<"I1", "C1">>, <<"I2", "C1">>, <<"I3", "C7">>, <<"I4", "C8">>,
       <<"C1", "C2">>, <<"C2", "C3">>, <<"C2", "X1">>, <<"C3", "C4">>,
       <<"C4", "C5">>, <<"C4", "C6">>, <<"C6", "C5">>, <<"C5", "C9">>,
       <<"C9", "E1">>, <<"E1", "O1">>,
       <<"C7", "E2">>, <<"E2", "O2">>, <<"C7", "E3">>, <<"E3", "O2">>,
       <<"C8", "P3">>, <<"C8", "P4">>, <<"C8", "P5">>,
       <<"P3", "E5">>, <<"P4", "E6">>, <<"P5", "E4">>,
       <<"E4", "O3">>, <<"E5", "O4">>, <<"E6", "O5">>,
       <<"C5", "P1">>, <<"P2", "C5">> >>

highlightColors ==
    [c \in Categories |->
        CASE c = "y"  -> "#4fc3f7"
          [] c = "yy" -> "#81d4fa"
          [] c = "e"  -> "#81c784"
          [] c = "d"  -> "#ffb74d"]

(***************************************************************************)
(* JavaScript values.                                                      *)
(***************************************************************************)
\* the value of nodeColors[n] for a key that was never written
Undefined == "undefined"

\* the truth value JavaScript gives a colour lookup
Truthy(v) == v \notin {Undefined, ""}

\* a || b
OrElse(a, b) == IF Truthy(a) THEN a ELSE b

(***************************************************************************)
(* The rendered diagram: elements as the renderer leaves them.             *)
(***************************************************************************)
\* a .node element: the node-hidden class and the inline style of its shape
FreshNode == [hidden |-> FALSE, stroke |-> "", strokeWidth |-> ""]

\* a connector element: inline opacity and the inline style of its path
FreshEdge == [opacity |-> "", stroke |-> "", strokeWidth |-> ""]

\* an .edgeLabel element
FreshLabel == [hidden |-> FALSE, opacity |-> ""]

FreshNodes == [n \in NodeIds |-> FreshNode]

FreshEdges(n) == [i \in 1..n |-> FreshEdge]

\* every edge line of the diagram carries a label
FreshLabels == [i \in 1..Len(mermaidEdges) |-> FreshLabel]

\* the numbers of connector elements the selectors of updateFilter may find
ConnectorCounts ==
    {n \in 0..(Len(edgeConnections) + MaxExtra) :
        n >= Len(edgeConnections) - MaxMissing}

(***************************************************************************)
(* updateFilter: the activation set and the colour map.                    *)
(***************************************************************************)
\* nodeColors after the four "if (cChecked) flowNodes[c].forEach" lines:
\* each checked category writes its colour over whatever is there
RECURSIVE AddOwned(_, _, _)
AddOwned(colors, chk, i) ==
    IF i > Len(CategoryOrder) THEN colors
    ELSE LET c == CategoryOrder[i]
         IN  AddOwned(IF chk[c]
                      THEN [n \in NodeIds |->
                               IF n \in Range(flowNodes[c])
                               THEN highlightColors[c] ELSE colors[n]]
                      ELSE colors,
                      chk, i + 1)

SharedColorYYFirst(chk) ==
    IF chk["yy"] THEN highlightColors["yy"] ELSE highlightColors["y"]

\* the colour given to a shared node that has none yet
SharedColor(chk) ==
    IF chk["y"] THEN highlightColors["y"] ELSE highlightColors["yy"]

\* the shared group is added when y or yy is checked
SharedActive(chk) == chk["y"] \/ chk["yy"]

ActiveNodes(chk) ==
    UNION {Range(flowNodes[c]) : c \in {d \in Categories : chk[d]}}
    \cup (IF SharedActive(chk) THEN Range(sharedNodes["y_yy"]) ELSE {})

NodeColors(chk) ==
    LET owned == AddOwned([n \in NodeIds |-> Undefined], chk, 1)
    IN  [n \in NodeIds |->
            IF /\ SharedActive(chk)
               /\ n \in Range(sharedNodes["y_yy"])
               /\ ~Truthy(owned[n])
            THEN SharedColor(chk) ELSE owned[n]]

activeCount(chk) == Cardinality({c \in Categories : chk[c]})

ShouldHighlightSingleOff(chk) == activeCount(chk) > 1

shouldHighlight(chk) == activeCount(chk) >= 1

allChecked(chk) == activeCount(chk) = Len(CategoryOrder)

noneChecked(chk) == activeCount(chk) = 0

(***************************************************************************)
(* updateFilter: the node loop.                                            *)
(***************************************************************************)
NodeShownActiveOnly(chk, n) == n \in ActiveNodes(chk)

NodeShown(chk, n) ==
    allChecked(chk) \/ noneChecked(chk) \/ n \in ActiveNodes(chk)

UpdateNodeKeepsHidden(el, chk, n) ==
    IF NodeShown(chk, n)
    THEN IF shouldHighlight(chk) /\ Truthy(NodeColors(chk)[n])
         THEN [el EXCEPT !.stroke = NodeColors(chk)[n], !.strokeWidth = "3px"]
         ELSE [el EXCEPT !.stroke = "", !.strokeWidth = ""]
    ELSE [hidden |-> TRUE, stroke |-> "", strokeWidth |-> ""]

\* the body of document.querySelectorAll('.node').forEach for node n; every
\* node of the diagram is drawn with a shape, so rect is never null
UpdateNode(el, chk, n) ==
    IF NodeShown(chk, n)
    THEN IF shouldHighlight(chk) /\ Truthy(NodeColors(chk)[n])
         THEN [hidden |-> FALSE, stroke |-> NodeColors(chk)[n],
               strokeWidth |-> "3px"]
         ELSE [hidden |-> FALSE, stroke |-> "", strokeWidth |-> ""]
    ELSE [hidden |-> TRUE, stroke |-> "", strokeWidth |-> ""]

UpdateNodes(els, chk) ==
    [n \in DOMAIN els |-> UpdateNode(els[n], chk, n)]

(***************************************************************************)
(* updateFilter: the connector loop.                                       *)
(***************************************************************************)
SkipsNothing(idx) == FALSE

\* if (idx >= edgeConnections.length) return;   (idx is 1-based here)
SkipsConnector(idx) == idx > Len(edgeConnections)

EdgeShownBothEnds(chk, conn) ==
    \/ allChecked(chk)
    \/ noneChecked(chk)
    \/ (conn[1] \in ActiveNodes(chk) /\ conn[2] \in ActiveNodes(chk))

EdgeShown(chk, conn) ==
    \/ allChecked(chk)
    \/ noneChecked(chk)
    \/ conn[1] \in ActiveNodes(chk)
    \/ conn[2] \in ActiveNodes(chk)

edgeColorTargetFirst(chk, conn) ==
    OrElse(NodeColors(chk)[conn[2]], NodeColors(chk)[conn[1]])

\* nodeColors[srcNode] || nodeColors[tgtNode]
edgeColor(chk, conn) ==
    OrElse(NodeColors(chk)[conn[1]], NodeColors(chk)[conn[2]])

\* the body of edgeGs.forEach for a connector with a declared pair; the
\* dimmed branch writes the opacity only
UpdateEdge(el, chk, conn) ==
    IF EdgeShown(chk, conn)
    THEN IF shouldHighlight(chk) /\ Truthy(edgeColor(chk, conn))
         THEN [opacity |-> "1", stroke |-> edgeColor(chk, conn),
               strokeWidth |-> "2.5px"]
         ELSE [opacity |-> "1", stroke |-> "", strokeWidth |-> ""]
    ELSE [el EXCEPT !.opacity = "0.1"]

\* reading conn[0] of an undefined pair raises a TypeError and ends the
\* handler: the first position where that happens, 0 when there is none
FirstThrow(n) ==
    LET bad == {i \in 1..n : ~SkipsConnector(i) /\ i > Len(edgeConnections)}
    IN  IF bad = {} THEN 0
        ELSE CHOOSE i \in bad : \A j \in bad : i <= j

UpdateEdges(els, chk) ==
    LET t == FirstThrow(Len(els))
    IN  [i \in 1..Len(els) |->
            IF SkipsConnector(i) \/ (t # 0 /\ i >= t)
            THEN els[i]
            ELSE UpdateEdge(els[i], chk, edgeConnections[i])]

(***************************************************************************)
(* updateFilter: the edge labels and the console.                          *)
(***************************************************************************)
UpdateLabelsDimmed(els, chk) ==
    [i \in 1..Len(els) |->
        IF i <= Len(edgeConnections) /\ ~EdgeShown(chk, edgeConnections[i])
        THEN [els[i] EXCEPT !.opacity = "0.1"] ELSE els[i]]

\* the labels are only counted and logged
UpdateLabels(els, chk) == els

NoLog == << >>

\* console.log('SVG not found')
SvgNotFoundLog == << [msg |-> "SVG not found", a |-> 0, b |-> 0] >>

\* console.log(found edge elements, declared connections), written before
\* the connector loop
EdgeCountLog(els) ==
    [msg |-> "edge elements / declared connections",
     a |-> Len(els), b |-> Len(edgeConnections)]

\* console.log(number of edge labels), written after the connector loop
LabelCountLog(els) == [msg |-> "edge labels", a |-> Len(els), b |-> 0]

FilterLog(edges, labels) ==
    IF FirstThrow(Len(edges)) # 0
    THEN << EdgeCountLog(edges) >>
    ELSE << EdgeCountLog(edges), LabelCountLog(labels) >>

(***************************************************************************)
(* updateFilter as one step, for checkbox values chk.                      *)
(***************************************************************************)
updateFilter(chk) ==
    IF ~rendered
    THEN \* no .node element and no svg: log and return
         /\ lastLog' = SvgNotFoundLog
         /\ threw' = FALSE
         /\ UNCHANGED <<nodeEls, edgeEls, edgeLabels, applied>>
    ELSE /\ nodeEls' = UpdateNodes(nodeEls, chk)
         /\ edgeEls' = UpdateEdges(edgeEls, chk)
         /\ edgeLabels' = UpdateLabels(edgeLabels, chk)
         /\ lastLog' = FilterLog(edgeEls, edgeLabels)
         /\ threw' = (FirstThrow(Len(edgeEls)) # 0)
         /\ applied' = TRUE

(***************************************************************************)
(* The page.                                                               *)
(***************************************************************************)
\* the four checkboxes carry the checked attribute; nothing is drawn yet
Init ==
    /\ checked = [c \in Categories |-> TRUE]
    /\ rendered = FALSE
    /\ timerFired = FALSE
    /\ nodeEls = << >>
    /\ edgeEls = << >>
    /\ edgeLabels = << >>
    /\ lastLog = NoLog
    /\ threw = FALSE
    /\ applied = FALSE

\* the renderer replaces the .mermaid block by the drawn svg
Render ==
    /\ ~rendered
    /\ rendered' = TRUE
    /\ nodeEls' = FreshNodes
    /\ \E n \in ConnectorCounts : edgeEls' = FreshEdges(n)
    /\ edgeLabels' = FreshLabels
    /\ UNCHANGED <<checked, timerFired, lastLog, threw, applied>>

\* the setTimeout(..., 500) callback: ends with updateFilter()
InitialTimer ==
    /\ ~timerFired
    /\ timerFired' = TRUE
    /\ updateFilter(checked)
    /\ UNCHANGED <<checked, rendered>>

\* the user changes checkbox filter-c: onchange="updateFilter()"
Toggle(c) ==
    /\ checked' = [checked EXCEPT ![c] = ~checked[c]]
    /\ updateFilter(checked')
    /\ UNCHANGED <<rendered, timerFired>>

Next ==
    \/ Render
    \/ InitialTimer
    \/ \E c \in Categories : Toggle(c)

Spec == Init /\ [][Next]_vars

(***************************************************************************)
(* Vocabulary of the properties.                                           *)
(***************************************************************************)
\* filtering is disabled: no checkbox or every checkbox is checked
Degenerate(chk) == allChecked(chk) \/ noneChecked(chk)

OnlyChecked(c) == checked = [d \in Categories |-> d = c]

NodeVisible(n) == ~nodeEls[n].hidden

EdgeDimmed(i) == edgeEls[i].opacity = "0.1"

EdgeVisible(i) == ~EdgeDimmed(i)

\* the connectors that have a declared pair
Paired == 1..Min(Len(edgeEls), Len(edgeConnections))

\* the connectors beyond the declared list
Unpaired == {i \in 1..Len(edgeEls) : i > Len(edgeConnections)}

\* the colour of the category that lists n in flowNodes, y's colour for the
\* nodes of the shared group
OwnColor(n) ==
    IF \E c \in Categories : n \in Range(flowNodes[c])
    THEN highlightColors[CHOOSE c \in Categories : n \in Range(flowNodes[c])]
    ELSE highlightColors["y"]

C2_EdgeOrRule ==
    (applied /\ ~Degenerate(checked)) =>
        \A i \in Paired :
            LET s == edgeConnections[i][1]
                t == edgeConnections[i][2]
                A == ActiveNodes(checked)
            IN  /\ EdgeVisible(i) <=> (s \in A \/ t \in A)
                /\ edgeEls[i].opacity = "1" <=> (s \in A \/ t \in A)
                /\ EdgeDimmed(i) <=> (s \notin A /\ t \notin A)

\* a connector shown through one endpoint only, next to a dimmed one
C2_Witness ==
    /\ applied
    /\ ~Degenerate(checked)
    /\ \E i \in Paired :
          /\ EdgeVisible(i)
          /\ edgeConnections[i][1] \in ActiveNodes(checked)
          /\ edgeConnections[i][2] \notin ActiveNodes(checked)
    /\ \E i \in Paired : EdgeDimmed(i)

(***************************************************************************)
(* C3 as stated: after any sequence of checkbox changes the visibility and *)
(* stroke of every node and connector equal what one updateFilter call     *)
(* leaves on a freshly rendered diagram with the same checkbox values.     *)
(***************************************************************************)
C3_SameAsFresh ==
    applied =>
        /\ nodeEls = UpdateNodes(FreshNodes, checked)
        /\ edgeEls = UpdateEdges(FreshEdges(Len(edgeEls)), checked)

(***************************************************************************)
(* C4 as stated: a second updateFilter run with the same checkbox values   *)
(* changes nothing, and changing one checkbox and changing it back (runs   *)
(* for A, B, A) reproduces the result of the first run for A.              *)
(***************************************************************************)
C4_Reproducible ==
    applied =>
        /\ UpdateNodes(nodeEls, checked) = nodeEls
        /\ UpdateEdges(edgeEls, checked) = edgeEls
        /\ \A c \in Categories :
              LET B == [checked EXCEPT ![c] = ~checked[c]]
              IN  /\ UpdateNodes(UpdateNodes(nodeEls, B), checked) = nodeEls
                  /\ UpdateEdges(UpdateEdges(edgeEls, B), checked) = edgeEls

(***************************************************************************)
(* C5: when c is the only checked category, every node of flowNodes[c] is  *)
(* visible and its stroke is highlightColors[c].                           *)
(***************************************************************************)
C5_OwnedNodesColoured ==
    \A c \in Categories :
        (applied /\ OnlyChecked(c)) =>
            \A n \in Range(flowNodes[c]) :
                /\ NodeVisible(n)
                /\ nodeEls[n].stroke = highlightColors[c]

C5_Witness ==
    /\ applied
    /\ OnlyChecked("d")
    /\ \E n \in NodeIds : ~NodeVisible(n)

(***************************************************************************)
(* C6: the nodes of the shared group y_yy are active iff y or yy is        *)
(* checked, and take y's colour when y is checked, yy's colour otherwise.  *)
(* With only y checked I1, X1 and the shared nodes are visible in y's      *)
(* colour and I2, C6 are dimmed.                                           *)
(***************************************************************************)
C6_SharedGroup ==
    LET shared == Range(sharedNodes["y_yy"])
    IN  /\ (applied /\ ~Degenerate(checked)) =>
              \A n \in shared :
                  NodeVisible(n) <=> (checked["y"] \/ checked["yy"])
        /\ (applied /\ (checked["y"] \/ checked["yy"])) =>
              \A n \in shared :
                  nodeEls[n].stroke =
                      IF checked["y"] THEN highlightColors["y"]
                      ELSE highlightColors["yy"]
        /\ (applied /\ OnlyChecked("y")) =>
              /\ \A n \in {"I1", "X1"} \cup shared :
                    NodeVisible(n) /\ nodeEls[n].stroke = highlightColors["y"]
              /\ \A n \in {"I2", "C6"} : ~NodeVisible(n)

\* y and yy both checked, the set not full
C6_Witness ==
    /\ applied
    /\ checked["y"] /\ checked["yy"]
    /\ ~allChecked(checked)
    /\ nodeEls["C5"].stroke = highlightColors["y"]

(***************************************************************************)
(* C7: under an active set that is neither empty nor full a node is        *)
(* visible iff it is in the activation set; the others carry the           *)
(* node-hidden class and stay in the diagram, and a hidden node is visible *)
(* again right after the updateFilter call whose checkbox values put it in *)
(* the activation set or disable filtering.                                *)
(***************************************************************************)
C7_NodeVisibility ==
    /\ rendered => DOMAIN nodeEls = NodeIds
    /\ (applied /\ ~Degenerate(checked)) =>
          \A n \in NodeIds : NodeVisible(n) <=> n \in ActiveNodes(checked)
    /\ (applied /\ Degenerate(checked)) =>
          \A n \in NodeIds : NodeVisible(n)

C7_Reappears ==
    \A n \in DOMAIN nodeEls :
        (/\ rendered
         /\ nodeEls[n].hidden
         /\ (Degenerate(checked') \/ n \in ActiveNodes(checked')))
        => (n \in DOMAIN nodeEls' /\ ~nodeEls'[n].hidden)

C7_DimmingReversible == []C7_NodeVisibility /\ [][C7_Reappears]_vars

\* filtering is on: a node of the activation set is visible while a node
\* outside it carries node-hidden and no stroke
C7_Witness ==
    /\ applied
    /\ ~Degenerate(checked)
    /\ checked["y"] /\ ~checked["e"]
    /\ NodeVisible("I1")
    /\ ~NodeVisible("I3")
    /\ nodeEls["I3"].stroke = ""

(***************************************************************************)
(* C8: when the number of connector elements differs from the length of    *)
(* edgeConnections, an updateFilter call raises no error, writes the       *)
(* opacity of the first min(rendered, declared) connectors only, leaves    *)
(* the others as they were, and logs both counts to the console.           *)
(***************************************************************************)
C8_Call ==
    rendered =>
        /\ threw' = FALSE
        /\ Len(edgeEls') = Len(edgeEls)
        /\ \A i \in Unpaired : edgeEls'[i] = edgeEls[i]
        /\ \A i \in Paired : edgeEls'[i].opacity \in {"1", "0.1"}
        /\ Len(lastLog') >= 1
        /\ lastLog'[1].a = Len(edgeEls)
        /\ lastLog'[1].b = Len(edgeConnections)

C8_CountMismatch == [][C8_Call]_vars

C8_Witness ==
    /\ applied
    /\ ~threw
    /\ Len(edgeEls) > Len(edgeConnections)
    /\ lastLog[1].a # lastLog[1].b
    /\ \E i \in Paired : EdgeDimmed(i)
    /\ \A i \in Unpaired : edgeEls[i] = FreshEdge

(***************************************************************************)
(* C10: the edge labels stay as the renderer drew them, visible, under     *)
(* every active set and after every sequence of checkbox changes, also     *)
(* the labels of dimmed connectors.                                        *)
(***************************************************************************)
C10_LabelsUntouched ==
    rendered =>
        /\ edgeLabels = FreshLabels
        /\ \A i \in 1..Len(edgeLabels) :
              ~edgeLabels[i].hidden /\ edgeLabels[i].opacity # "0.1"

C10_Witness ==
    /\ applied
    /\ \E i \in Paired :
          /\ EdgeDimmed(i)
          /\ i <= Len(edgeLabels)
          /\ ~edgeLabels[i].hidden

(***************************************************************************)
(* C11: edgeConnections is as long as the sequence of edge lines drawn by  *)
(* generate_mermaid and equals it position by position, so that, when the  *)
(* renderer exposes one connector per edge line in drawing order, the      *)
(* connector of the i-th edge line is shown or dimmed by the endpoints of  *)
(* that edge line.                                                         *)
(***************************************************************************)
C11_EdgeOrder ==
    /\ Len(edgeConnections) = Len(mermaidEdges)
    /\ \A i \in 1..Len(mermaidEdges) : edgeConnections[i] = mermaidEdges[i]
    /\ (applied /\ ~Degenerate(checked) /\ Len(edgeEls) = Len(mermaidEdges)) =>
          \A i \in 1..Len(mermaidEdges) :
              EdgeVisible(i) <=>
                  \/ mermaidEdges[i][1] \in ActiveNodes(checked)
                  \/ mermaidEdges[i][2] \in ActiveNodes(checked)

\* one connector per edge line, filtering on, the connectors after the
\* inline declaration of X1 both shown and dimmed
C11_Witness ==
    /\ applied
    /\ ~Degenerate(checked)
    /\ Len(edgeEls) = Len(mermaidEdges)
    /\ \E i \in 8..Len(edgeEls) : EdgeDimmed(i)
    /\ \E i \in 8..Len(edgeEls) : edgeEls[i].opacity = "1"

(***************************************************************************)
(* Ownership: the categories whose checkbox puts node n in the activation  *)
(* set, through flowNodes or through the shared group of y and yy.         *)
(***************************************************************************)
Owners(n) ==
    {c \in Categories : n \in Range(flowNodes[c])}
    \cup (IF n \in Range(sharedNodes["y_yy"]) THEN {"y", "yy"} ELSE {})

ActiveOwners(n, chk) == {c \in Owners(n) : chk[c]}

\* the first category, in the order updateFilter processes them, that is
\* checked and owns n
FirstActiveOwner(n, chk) ==
    CategoryOrder[CHOOSE i \in 1..Len(CategoryOrder) :
                     /\ CategoryOrder[i] \in ActiveOwners(n, chk)
                     /\ \A j \in 1..(i - 1) :
                           CategoryOrder[j] \notin ActiveOwners(n, chk)]

(***************************************************************************)
(* C12: a node owned by more than one checked category is stroked with the *)
(* colour of the first of them in the order y, yy, e, d; no later checked  *)
(* owner's colour replaces it.                                             *)
(***************************************************************************)
C12_FirstOwnerColour ==
    applied =>
        \A n \in NodeIds :
            Cardinality(ActiveOwners(n, checked)) > 1 =>
                /\ NodeVisible(n)
                /\ nodeEls[n].stroke =
                       highlightColors[FirstActiveOwner(n, checked)]
                /\ \A c \in ActiveOwners(n, checked) :
                       c # FirstActiveOwner(n, checked) =>
                           nodeEls[n].stroke # highlightColors[c]

\* y and yy checked together with e: the shared node C1 has two checked
\* owners and carries y's colour
C12_Witness ==
    /\ applied
    /\ checked["y"] /\ checked["yy"] /\ checked["e"] /\ ~checked["d"]
    /\ Cardinality(ActiveOwners("C1", checked)) > 1
    /\ nodeEls["C1"].stroke = highlightColors["y"]

(***************************************************************************)
(* C13: under an active set that is neither empty nor full, a visible      *)
(* connector with declared pair (s, t) is stroked with the highlight       *)
(* colour of s when s has one and with that of t otherwise; when both have *)
(* one and they differ, the source's is used: with y and yy checked the    *)
(* connector C6 -> C5 carries yy's colour (C6), not y's (C5).              *)
(***************************************************************************)
C13_EdgeColourFromSource ==
    (applied /\ ~Degenerate(checked)) =>
        /\ \A i \in Paired :
              LET s == edgeConnections[i][1]
                  t == edgeConnections[i][2]
              IN  edgeEls[i].opacity = "1" =>
                      /\ edgeEls[i].stroke =
                             IF nodeEls[s].stroke # ""
                             THEN nodeEls[s].stroke ELSE nodeEls[t].stroke
                      /\ edgeEls[i].stroke # ""
                      /\ edgeEls[i].strokeWidth = "2.5px"
        /\ (checked["y"] /\ checked["yy"]) =>
              \A i \in Paired :
                  edgeConnections[i] = <<"C6", "C5">> =>
                      edgeEls[i].stroke = highlightColors["yy"]

\* the connector C6 -> C5 with both endpoints coloured differently
C13_Witness ==
    /\ applied
    /\ checked["y"] /\ checked["yy"] /\ ~checked["e"] /\ ~checked["d"]
    /\ \E i \in Paired :
          /\ edgeConnections[i] = <<"C6", "C5">>
          /\ edgeEls[i].opacity = "1"
          /\ nodeEls["C6"].stroke = highlightColors["yy"]
          /\ nodeEls["C5"].stroke = highlightColors["y"]
          /\ edgeEls[i].stroke = highlightColors["yy"]

====
